---- MODULE Spec2Model ----
(***************************************************************************)
(* Model of dcosctl.py: a command-line client of the Mesos maintenance     *)
(* API.  Every process runs main() once: it builds the machine id from     *)
(* the arguments and runs one of cordon, uncordon, drain, up.  The only    *)
(* shared state is the schedule document held by the Mesos master, which   *)
(* the client reads with GET maintenance/schedule and replaces with POST   *)
(* maintenance/schedule.  Every request may be answered with an error      *)
(* status, which ends the command with an uncaught HTTPError.              *)
(*                                                                         *)
(* Spec runs the commands one at a time, as the program is meant to be     *)
(* used; SpecConcurrent lets the processes interleave at their HTTP        *)
(* requests.  A command that has ended keeps what it held until its        *)
(* process exits; the program holds no state across invocations.           *)
(***************************************************************************)
EXTENDS Integers, Sequences, FiniteSets, TLC

\* ------------------------------------------------------------------ bounds
\* concurrent dcosctl processes (one command each)
NumProcs == 2
\* windows in the schedule the master holds before the first command
MaxInitWindows == 2
\* readings of time.time() after the first
MaxClock == 0

Procs == 1..NumProcs

\* ------------------------------------------------- whole numbers of any size
\* a natural number is the sequence of its digits to the base 2^15, the least
\* significant first and the most significant not 0; 0 is <<>>
Base == 2^15

RECURSIVE NatNorm(_)
NatNorm(a) ==
    IF a = <<>> THEN <<>>
    ELSE IF a[Len(a)] = 0 THEN NatNorm(SubSeq(a, 1, Len(a) - 1)) ELSE a

RECURSIVE NatAddCarry(_, _, _)
NatAddCarry(a, b, c) ==
    IF a = <<>> /\ b = <<>> THEN (IF c = 0 THEN <<>> ELSE <<c>>)
    ELSE LET x == (IF a = <<>> THEN 0 ELSE Head(a))
                  + (IF b = <<>> THEN 0 ELSE Head(b)) + c
         IN  <<x % Base>> \o NatAddCarry(IF a = <<>> THEN <<>> ELSE Tail(a),
                                         IF b = <<>> THEN <<>> ELSE Tail(b),
                                         x \div Base)

NatAdd(a, b) == NatAddCarry(a, b, 0)

\* a - b, for a >= b
RECURSIVE NatSubBorrow(_, _, _)
NatSubBorrow(a, b, c) ==
    IF a = <<>> THEN <<>>
    ELSE LET x == Head(a) - (IF b = <<>> THEN 0 ELSE Head(b)) - c
         IN  <<x % Base>> \o NatSubBorrow(Tail(a),
                                          IF b = <<>> THEN <<>> ELSE Tail(b),
                                          IF x < 0 THEN 1 ELSE 0)

NatSub(a, b) == NatNorm(NatSubBorrow(a, b, 0))

RECURSIVE NatLess(_, _)
NatLess(a, b) ==
    IF Len(a) # Len(b) THEN Len(a) < Len(b)
    ELSE IF a = <<>> THEN FALSE
    ELSE IF a[Len(a)] # b[Len(b)] THEN a[Len(a)] < b[Len(b)]
    ELSE NatLess(NatNorm(SubSeq(a, 1, Len(a) - 1)), NatNorm(SubSeq(b, 1, Len(b) - 1)))

\* a * d + c for a digit d and a carry c
RECURSIVE NatMulDigit(_, _, _)
NatMulDigit(a, d, c) ==
    IF a = <<>> THEN (IF c = 0 THEN <<>> ELSE <<c>>)
    ELSE LET x == Head(a) * d + c
         IN  <<x % Base>> \o NatMulDigit(Tail(a), d, x \div Base)

RECURSIVE NatMul(_, _)
NatMul(a, b) ==
    IF a = <<>> \/ b = <<>> THEN <<>>
    ELSE NatAdd(NatNorm(NatMulDigit(a, Head(b), 0)),
                NatNorm(<<0>> \o NatMul(a, Tail(b))))

\* a * 2^k
NatShl(a, k) ==
    IF a = <<>> THEN <<>>
    ELSE [i \in 1..(k \div 15) |-> 0] \o NatMulDigit(a, 2^(k % 15), 0)

\* a \div 2^k
NatShr(a, k) ==
    IF k \div 15 >= Len(a) THEN <<>>
    ELSE LET s == SubSeq(a, (k \div 15) + 1, Len(a))
             r == k % 15
         IN  NatNorm([i \in 1..Len(s) |->
                        (s[i] \div 2^r)
                        + (IF i < Len(s) THEN (s[i + 1] % 2^r) * 2^(15 - r) ELSE 0)])

\* the number of binary digits of a
NatBitLen(a) ==
    IF a = <<>> THEN 0
    ELSE 15 * (Len(a) - 1)
         + (CHOOSE n \in 1..15 : 2^(n - 1) <= a[Len(a)] /\ a[Len(a)] < 2^n)

\* 10**9
TenToThe9 == <<18944, 30517>>

\* ------------------------------------------------------------------ floats
\* a double is mant * 2^exp, negated when neg, with mant a natural number
\* below 2^53; kind tells the infinities and the NaN apart from these
Float(neg, mant, exp) == [kind |-> "finite", neg |-> neg, mant |-> mant, exp |-> exp]
Inf(neg) == [kind |-> "inf", neg |-> neg, mant |-> <<>>, exp |-> 0]
NaN == [kind |-> "nan", neg |-> FALSE, mant |-> <<>>, exp |-> 0]

\* mant * 2^exp rounded to 53 binary digits, ties to even: <<mant, exp>>
Round53(mant, exp) ==
    IF NatBitLen(mant) <= 53 THEN <<mant, exp>>
    ELSE LET k == NatBitLen(mant) - 53
             hi == NatShr(mant, k)
             rest == NatSub(mant, NatShl(hi, k))
             half == NatShl(<<1>>, k - 1)
             up == \/ NatLess(half, rest)
                   \/ rest = half /\ hi[1] % 2 = 1
         IN  <<IF up THEN NatAdd(hi, <<1>>) ELSE hi, exp + k>>

\* seconds * 10**9 in double arithmetic
TimesTenToThe9(seconds) ==
    IF seconds.kind # "finite" \/ seconds.mant = <<>> THEN seconds
    ELSE LET r == Round53(NatMul(seconds.mant, TenToThe9), seconds.exp)
         IN  IF NatBitLen(r[1]) + r[2] > 1024 THEN Inf(seconds.neg)
             ELSE Float(seconds.neg, r[1], r[2])

\* what int() raises on a double, "none" when it returns
IntRaises(x) ==
    IF x.kind = "inf" THEN "OverflowError"
    ELSE IF x.kind = "nan" THEN "ValueError"
    ELSE "none"

\* int() of a finite double: the digits after the point are dropped
IntTrunc(x) ==
    LET mag == IF x.exp >= 0 THEN NatShl(x.mant, x.exp) ELSE NatShr(x.mant, -x.exp)
    IN  [neg |-> x.neg /\ mag # <<>>, mag |-> mag]

\* what _ns_time(seconds) raises, "none" when it returns
_ns_time_raises(seconds) == IntRaises(TimesTenToThe9(seconds))

\* _ns_time(seconds) = {"nanoseconds": int(seconds * 10**9)}
_ns_time(seconds) == [nanoseconds |-> IntTrunc(TimesTenToThe9(seconds))]

\* ------------------------------------------------- command-line arguments
\* readings of time.time(): 1761762000.123456 and whole seconds after it
TimeReading(i) ==
    Float(FALSE, NatAdd(<<31149, 23043, 16534, 52>>, NatShl(NatNorm(<<i>>), 20)), -20)

Times == {TimeReading(i) : i \in 0..MaxClock}

\* <<ip, --hostname>>; "" stands for an omitted --hostname
MachineArgs == {<<"h1", "">>, <<"h1", "n1">>}

\* the default of --duration, 3600.0
DefaultDuration == Float(FALSE, <<3600>>, 0)

\* --duration values (type=float): 3600.0, -0.3 and 1e300
DurationArgs ==
    {DefaultDuration,
     Float(TRUE, <<13107, 26214, 19660, 153>>, -54),
     Float(FALSE, <<7527, 17408, 25660, 47>>, 946)}

\* main(): hostname = args.hostname if args.hostname else args.ip
MachineIdOf(ip, hostname) ==
    [ip |-> ip, hostname |-> IF hostname # "" THEN hostname ELSE ip]

Machines == {MachineIdOf(a[1], a[2]) : a \in MachineArgs}

\* ------------------------------------------------------------ documents
\* the schedule document {} (no "windows" key), as Mesos reports an unset schedule
NoKeys == [k \in {} |-> <<>>]

Schedule(ws) == [windows |-> ws]

\* a whole number of a JSON document
IntOf(n) == [neg |-> FALSE, mag |-> NatNorm(<<n>>)]

\* unavailability of the windows already on the master at the start
InitUnavailability ==
    [duration |-> [nanoseconds |-> IntOf(5)], start |-> [nanoseconds |-> IntOf(7)]]

InitWindowSet ==
    {[machine_ids |-> ids, unavailability |-> InitUnavailability] :
        ids \in {<<>>, <<MachineIdOf("h1", "")>>,
                 <<MachineIdOf("h1", ""), MachineIdOf("h1", "n1")>>}}

\* the documents the master may hold at the start: {}, documents with the
\* windows alone, and documents with one more key beside one window
InitSchedules ==
    {NoKeys} \cup
    {Schedule(ws) : ws \in UNION {[1..n -> InitWindowSet] : n \in 0..MaxInitWindows}}
    \cup {[note |-> "x", windows |-> <<w>>] : w \in InitWindowSet}

\* maintenance/status responses: draining_machines as the set of their ids
StatusResponses == {{}, {MachineIdOf("h1", "")}}

\* ---------------------------------------------------------------- state
VARIABLES
    remote,     \* the schedule document on the Mesos master
    now,        \* per process: its reading of time.time()
    pc,         \* per process: "init", "get", "post", "done", "exited"
    func,       \* per process: args.func
    machine_id, \* per process: the machine id main() built
    duration,   \* per process: args.duration
    status,     \* per process: the maintenance/status response it got
    schedule,   \* per process: the maintenance/schedule document it got
    reqs,       \* per process: the HTTP requests it issued, in order
    out,        \* per process: the lines it printed with _log
    raised,     \* per process: the exception that ended it, or "none"
    exit        \* per process: exit code

vars == <<remote, now, pc, func, machine_id, duration, status, schedule,
          reqs, out, raised, exit>>

\* ---------------------------------------------------------- _request
\* a request and whether the answer had a 2xx status (raise_for_status)
Get(path, ok) == [method |-> "GET", path |-> path, json |-> "none",
                  machines |-> <<>>, doc |-> NoKeys, ok |-> ok]
PostSchedule(doc, ok) == [method |-> "POST", path |-> "maintenance/schedule",
                          json |-> "schedule", machines |-> <<>>, doc |-> doc,
                          ok |-> ok]
PostMachines(path, ms, ok) == [method |-> "POST", path |-> path,
                               json |-> "machines", machines |-> ms,
                               doc |-> NoKeys, ok |-> ok]

\* _is_draining: some entry of draining_machines has this id
_is_draining(st, m) == \E d \in st : d = m

\* ------------------------------------------------------- list helpers
InSeq(x, s) == \E i \in 1..Len(s) : s[i] = x

\* mutant: the comparison is turned around
RECURSIVE WithoutOthers(_, _)
WithoutOthers(ids, m) ==
    IF ids = <<>> THEN <<>>
    ELSE IF Head(ids) = m THEN <<Head(ids)>> \o WithoutOthers(Tail(ids), m)
         ELSE WithoutOthers(Tail(ids), m)

\* [mid for mid in machine_ids if mid != machine_id]
RECURSIVE Without(_, _)
Without(ids, m) ==
    IF ids = <<>> THEN <<>>
    ELSE IF Head(ids) # m THEN <<Head(ids)>> \o Without(Tail(ids), m)
         ELSE Without(Tail(ids), m)

\* schedule.get("windows"), None read as the empty list
WindowsOf(doc) == IF "windows" \in DOMAIN doc THEN doc.windows ELSE <<>>

\* --------------------------------------------------------------- cordon
\* mutant: only the first window is looked at
AlreadyScheduledFirst(ws, m) == ws # <<>> /\ InSeq(m, ws[1].machine_ids)

\* mutant: only the last window is looked at
AlreadyScheduledLast(ws, m) == ws # <<>> /\ InSeq(m, ws[Len(ws)].machine_ids)

\* for window in windows: if machine_id in window["machine_ids"]
AlreadyScheduled(ws, m) == \E i \in 1..Len(ws) : InSeq(m, ws[i].machine_ids)

NewWindow(m, d, t) ==
    [machine_ids |-> <<m>>,
     unavailability |-> [duration |-> _ns_time(d), start |-> _ns_time(t)]]

\* the fetched document with its windows list replaced, its other keys kept
WithWindows(doc, ws) ==
    [k \in DOMAIN doc \cup {"windows"} |-> IF k = "windows" THEN ws ELSE doc[k]]

\* mutant: the window is appended to the schedule as it is on the master now
CordonDocFresh(doc, m, d, t) ==
    WithWindows(remote, Append(WindowsOf(remote), NewWindow(m, d, t)))

\* the document cordon posts: the fetched document after windows.append(...)
CordonDoc(doc, m, d, t) ==
    WithWindows(doc, Append(WindowsOf(doc), NewWindow(m, d, t)))

\* ------------------------------------------------------------- uncordon
\* mutant: the loop stops at the first window that holds the machine
RECURSIVE NewWindowsFirstHit(_, _)
NewWindowsFirstHit(ws, m) ==
    IF ws = <<>> THEN <<>>
    ELSE LET window == Head(ws)
             new_machine_ids == Without(window.machine_ids, m)
         IN  (IF new_machine_ids # <<>>
              THEN <<[window EXCEPT !.machine_ids = new_machine_ids]>>
              ELSE <<>>)
             \o (IF new_machine_ids # window.machine_ids
                 THEN Tail(ws) ELSE NewWindowsFirstHit(Tail(ws), m))

\* mutant: windows left without machine ids are kept
RECURSIVE NewWindowsKeepEmpty(_, _)
NewWindowsKeepEmpty(ws, m) ==
    IF ws = <<>> THEN <<>>
    ELSE <<[Head(ws) EXCEPT !.machine_ids = Without(Head(ws).machine_ids, m)]>>
         \o NewWindowsKeepEmpty(Tail(ws), m)

\* the loop of uncordon: new_windows
RECURSIVE NewWindows(_, _)
NewWindows(ws, m) ==
    IF ws = <<>> THEN <<>>
    ELSE LET window == Head(ws)
             new_machine_ids == Without(window.machine_ids, m)
         IN  (IF new_machine_ids # <<>>
              THEN <<[window EXCEPT !.machine_ids = new_machine_ids]>>
              ELSE <<>>) \o NewWindows(Tail(ws), m)

\* mutant: scheduled is set anew by every window, so the last one decides
ScheduledLast(ws, m) ==
    ws # <<>> /\ Without(ws[Len(ws)].machine_ids, m) # ws[Len(ws)].machine_ids

\* the loop of uncordon: scheduled
Scheduled(ws, m) ==
    \E i \in 1..Len(ws) : Without(ws[i].machine_ids, m) # ws[i].machine_ids

\* ----------------------------------------------------------------- Init
Init ==
    /\ remote \in InitSchedules
    /\ now = [p \in Procs |-> Float(FALSE, <<>>, 0)]
    /\ pc = [p \in Procs |-> "init"]
    /\ func = [p \in Procs |-> "none"]
    /\ machine_id = [p \in Procs |-> MachineIdOf("h1", "")]
    /\ duration = [p \in Procs |-> Float(FALSE, <<>>, 0)]
    /\ status = [p \in Procs |-> {}]
    /\ schedule = [p \in Procs |-> NoKeys]
    /\ reqs = [p \in Procs |-> <<>>]
    /\ out = [p \in Procs |-> <<>>]
    /\ raised = [p \in Procs |-> "none"]
    /\ exit = [p \in Procs |-> 0]

\* processes are numbered in the order in which they are started
MayStart(p) == pc[p] = "init" /\ \A q \in Procs : q < p => pc[q] # "init"

\* the command ends with an exception: main() turns a ScheduleError into an
\* ERROR line and sys.exit(1); any other exception is not caught, and the
\* interpreter ends with a traceback and exit code 1
Raise(p, exception) ==
    /\ pc' = [pc EXCEPT ![p] = "done"]
    /\ raised' = [raised EXCEPT ![p] = exception]
    /\ out' = [out EXCEPT ![p] =
                 IF exception = "ScheduleError" THEN Append(@, "ERROR") ELSE @]
    /\ exit' = [exit EXCEPT ![p] = 1]

\* main() with "cordon", up to the answer to GET maintenance/status
CordonStatus(p, a, d, st, ok) ==
    /\ MayStart(p)
    /\ func' = [func EXCEPT ![p] = "cordon"]
    /\ machine_id' = [machine_id EXCEPT ![p] = MachineIdOf(a[1], a[2])]
    /\ duration' = [duration EXCEPT ![p] = d]
    /\ reqs' = [reqs EXCEPT ![p] = Append(@, Get("maintenance/status", ok))]
    /\ IF ~ok
       THEN Raise(p, "HTTPError") /\ UNCHANGED status
       ELSE /\ status' = [status EXCEPT ![p] = st]
            /\ IF _is_draining(st, MachineIdOf(a[1], a[2]))
               THEN Raise(p, "ScheduleError")
               ELSE /\ pc' = [pc EXCEPT ![p] = "get"]
                    /\ UNCHANGED <<out, raised, exit>>
    /\ UNCHANGED <<remote, now, schedule>>

\* cordon: GET maintenance/schedule
CordonGet(p, ok) ==
    /\ pc[p] = "get"
    /\ func[p] = "cordon"
    /\ reqs' = [reqs EXCEPT ![p] = Append(@, Get("maintenance/schedule", ok))]
    /\ IF ~ok
       THEN Raise(p, "HTTPError") /\ UNCHANGED schedule
       ELSE /\ schedule' = [schedule EXCEPT ![p] = remote]
            /\ pc' = [pc EXCEPT ![p] = "post"]
            /\ UNCHANGED <<out, raised, exit>>
    /\ UNCHANGED <<remote, now, func, machine_id, duration, status>>

\* cordon: the duplicate check, the append and POST maintenance/schedule
CordonPost(p, t, ok) ==
    /\ pc[p] = "post"
    /\ func[p] = "cordon"
    /\ IF AlreadyScheduled(WindowsOf(schedule[p]), machine_id[p])
       THEN Raise(p, "ScheduleError") /\ UNCHANGED <<remote, now, reqs>>
       ELSE IF _ns_time_raises(duration[p]) # "none"
       THEN Raise(p, _ns_time_raises(duration[p])) /\ UNCHANGED <<remote, now, reqs>>
       ELSE IF _ns_time_raises(t) # "none"
       THEN /\ now' = [now EXCEPT ![p] = t]
            /\ Raise(p, _ns_time_raises(t))
            /\ UNCHANGED <<remote, reqs>>
       ELSE LET doc == CordonDoc(schedule[p], machine_id[p], duration[p], t)
            IN  /\ now' = [now EXCEPT ![p] = t]
                /\ reqs' = [reqs EXCEPT ![p] = Append(@, PostSchedule(doc, ok))]
                /\ IF ~ok
                   THEN Raise(p, "HTTPError") /\ UNCHANGED remote
                   ELSE /\ remote' = doc
                        /\ pc' = [pc EXCEPT ![p] = "done"]
                        /\ UNCHANGED <<out, raised, exit>>
    /\ UNCHANGED <<func, machine_id, duration, status, schedule>>

\* main() with "uncordon", up to the answer to GET maintenance/status
UncordonStatus(p, a, st, ok) ==
    /\ MayStart(p)
    /\ func' = [func EXCEPT ![p] = "uncordon"]
    /\ machine_id' = [machine_id EXCEPT ![p] = MachineIdOf(a[1], a[2])]
    /\ reqs' = [reqs EXCEPT ![p] = Append(@, Get("maintenance/status", ok))]
    /\ IF ~ok
       THEN Raise(p, "HTTPError") /\ UNCHANGED status
       ELSE /\ status' = [status EXCEPT ![p] = st]
            /\ out' = [out EXCEPT ![p] =
                         IF ~_is_draining(st, MachineIdOf(a[1], a[2]))
                         THEN Append(@, "WARN") ELSE @]
            /\ pc' = [pc EXCEPT ![p] = "get"]
            /\ UNCHANGED <<raised, exit>>
    /\ UNCHANGED <<remote, now, duration, schedule>>

\* uncordon: GET maintenance/schedule
UncordonGet(p, ok) ==
    /\ pc[p] = "get"
    /\ func[p] = "uncordon"
    /\ reqs' = [reqs EXCEPT ![p] = Append(@, Get("maintenance/schedule", ok))]
    /\ IF ~ok
       THEN Raise(p, "HTTPError") /\ UNCHANGED schedule
       ELSE /\ schedule' = [schedule EXCEPT ![p] = remote]
            /\ pc' = [pc EXCEPT ![p] = "post"]
            /\ UNCHANGED <<out, raised, exit>>
    /\ UNCHANGED <<remote, now, func, machine_id, duration, status>>

\* uncordon: the filtering loop and POST maintenance/schedule
UncordonPost(p, ok) ==
    /\ pc[p] = "post"
    /\ func[p] = "uncordon"
    /\ LET windows == WindowsOf(schedule[p])
       IN  IF windows = <<>> \/ ~Scheduled(windows, machine_id[p])
           THEN Raise(p, "ScheduleError") /\ UNCHANGED <<remote, reqs>>
           ELSE LET doc == Schedule(NewWindows(windows, machine_id[p]))
                IN  /\ reqs' = [reqs EXCEPT ![p] = Append(@, PostSchedule(doc, ok))]
                    /\ IF ~ok
                       THEN Raise(p, "HTTPError") /\ UNCHANGED remote
                       ELSE /\ remote' = doc
                            /\ pc' = [pc EXCEPT ![p] = "done"]
                            /\ UNCHANGED <<out, raised, exit>>
    /\ UNCHANGED <<now, func, machine_id, duration, status, schedule>>

\* main() with a command that posts the machine id to path
PostMachine(p, a, f, path, ok) ==
    /\ MayStart(p)
    /\ func' = [func EXCEPT ![p] = f]
    /\ machine_id' = [machine_id EXCEPT ![p] = MachineIdOf(a[1], a[2])]
    /\ reqs' = [reqs EXCEPT ![p] =
                  Append(@, PostMachines(path, <<MachineIdOf(a[1], a[2])>>, ok))]
    /\ IF ~ok
       THEN Raise(p, "HTTPError")
       ELSE /\ pc' = [pc EXCEPT ![p] = "done"]
            /\ UNCHANGED <<out, raised, exit>>
    /\ UNCHANGED <<remote, now, duration, status, schedule>>

\* mutant: drain posts to machine/up
DrainUp(p, a, ok) == PostMachine(p, a, "drain", "machine/up", ok)

\* main() with "drain": POST machine/down
Drain(p, a, ok) == PostMachine(p, a, "drain", "machine/down", ok)

\* main() with "up": POST machine/up
Up(p, a, ok) == PostMachine(p, a, "up", "machine/up", ok)

\* the process is gone, and with it all it held
Exit(p) ==
    /\ pc[p] = "done"
    /\ \A q \in Procs : q < p => pc[q] = "exited"
    /\ pc' = [pc EXCEPT ![p] = "exited"]
    /\ now' = [now EXCEPT ![p] = Float(FALSE, <<>>, 0)]
    /\ func' = [func EXCEPT ![p] = "none"]
    /\ machine_id' = [machine_id EXCEPT ![p] = MachineIdOf("h1", "")]
    /\ duration' = [duration EXCEPT ![p] = Float(FALSE, <<>>, 0)]
    /\ status' = [status EXCEPT ![p] = {}]
    /\ schedule' = [schedule EXCEPT ![p] = NoKeys]
    /\ reqs' = [reqs EXCEPT ![p] = <<>>]
    /\ out' = [out EXCEPT ![p] = <<>>]
    /\ raised' = [raised EXCEPT ![p] = "none"]
    /\ exit' = [exit EXCEPT ![p] = 0]
    /\ UNCHANGED remote

\* no command is between two of its HTTP requests, and of the commands that
\* have ended at most the last one has not exited
Quiet ==
    /\ \A q \in Procs : pc[q] \in {"init", "done", "exited"}
    /\ Cardinality({q \in Procs : pc[q] = "done"}) <= 1

\* the commands that have ended have exited
NoneDone == \A q \in Procs : pc[q] # "done"

\* one command at a time
Next ==
    \/ \E p \in Procs, a \in MachineArgs, d \in DurationArgs,
          st \in StatusResponses, ok \in BOOLEAN :
         Quiet /\ CordonStatus(p, a, d, st, ok)
    \/ \E p \in Procs, ok \in BOOLEAN : CordonGet(p, ok)
    \/ \E p \in Procs, t \in Times, ok \in BOOLEAN : CordonPost(p, t, ok)
    \/ \E p \in Procs, a \in MachineArgs, st \in StatusResponses, ok \in BOOLEAN :
         Quiet /\ UncordonStatus(p, a, st, ok)
    \/ \E p \in Procs, ok \in BOOLEAN : UncordonGet(p, ok)
    \/ \E p \in Procs, ok \in BOOLEAN : UncordonPost(p, ok)
    \/ \E p \in Procs, a \in MachineArgs, ok \in BOOLEAN : Quiet /\ Drain(p, a, ok)
    \/ \E p \in Procs, a \in MachineArgs, ok \in BOOLEAN : Quiet /\ Up(p, a, ok)
    \/ \E p \in Procs : Exit(p)

Spec == Init /\ [][Next]_vars

\* every machine id is in the machine_ids of at most one window
AtMostOneWindow(doc) ==
    \A m \in Machines :
        Cardinality({i \in 1..Len(WindowsOf(doc)) :
                        InSeq(m, WindowsOf(doc)[i].machine_ids)}) <= 1

InitConcurrent ==
    /\ Init
    /\ AtMostOneWindow(remote)

\* the commands interleave at their HTTP requests; --duration is left at its
\* default, the clock reads one time, and only a POST may be refused
NextConcurrent ==
    \/ \E p \in Procs, a \in MachineArgs, st \in StatusResponses :
         NoneDone /\ CordonStatus(p, a, DefaultDuration, st, TRUE)
    \/ \E p \in Procs : CordonGet(p, TRUE)
    \/ \E p \in Procs, ok \in BOOLEAN : CordonPost(p, TimeReading(0), ok)
    \/ \E p \in Procs, a \in MachineArgs, st \in StatusResponses :
         NoneDone /\ UncordonStatus(p, a, st, TRUE)
    \/ \E p \in Procs : UncordonGet(p, TRUE)
    \/ \E p \in Procs, ok \in BOOLEAN : UncordonPost(p, ok)
    \/ \E p \in Procs, a \in MachineArgs, ok \in BOOLEAN : NoneDone /\ Drain(p, a, ok)
    \/ \E p \in Procs, a \in MachineArgs, ok \in BOOLEAN : NoneDone /\ Up(p, a, ok)
    \/ \E p \in Procs : Exit(p)

SpecConcurrent == InitConcurrent /\ [][NextConcurrent]_vars

\* ================================================================ claims
Done(p) == pc[p] = "done"

\* the command has ended without an exception
Succeeded(p) == Done(p) /\ raised[p] = "none"

\* p's i-th request was answered with a 2xx status
Answered(p, i) == Len(reqs[p]) >= i /\ reqs[p][i].ok

\* p has got the maintenance/status response (cordon and uncordon)
Reported(p) == Answered(p, 1)

\* p has got the maintenance/schedule document (cordon and uncordon)
Fetched(p) == Answered(p, 2)

\* p has issued POST maintenance/schedule
Posted(p) ==
    \E i \in 1..Len(reqs[p]) :
        reqs[p][i].method = "POST" /\ reqs[p][i].path = "maintenance/schedule"

\* the document of p's last request
PostedDoc(p) == reqs[p][Len(reqs[p])].doc

\* p is the command that ran last
Latest(p) == Done(p) /\ \A q \in Procs : q > p => pc[q] = "init"

HasEmptyWindow(ws) == \E i \in 1..Len(ws) : ws[i].machine_ids = <<>>

InNoWindow(m, ws) ==
    \A i \in 1..Len(ws) : \A j \in 1..Len(ws[i].machine_ids) : ws[i].machine_ids[j] # m

\* ns is the whole number of nanoseconds in the double seconds, as exactly as
\* doubles allow: with P = |seconds| * 10^9 and N = |ns|, |N - P| < 1 + P / 2^53
IsNanoseconds(ns, seconds) ==
    LET s == IF seconds.exp < 0 THEN -seconds.exp ELSE 0
        P == NatShl(NatMul(seconds.mant, TenToThe9), seconds.exp + s)
        N == NatShl(ns.mag, s)
        diff == IF NatLess(N, P) THEN NatSub(P, N) ELSE NatSub(N, P)
    IN  /\ seconds.kind = "finite"
        /\ ns.neg => seconds.neg
        /\ NatLess(NatShl(diff, 53), NatAdd(P, NatShl(<<1>>, 53 + s)))

\* ---------------------------------------------------------------- C1
CordonApplies(p) ==
    /\ func[p] = "cordon"
    /\ Done(p)
    /\ Reported(p)
    /\ ~(machine_id[p] \in status[p])
    /\ Fetched(p)
    /\ InNoWindow(machine_id[p], WindowsOf(schedule[p]))

\* C1 as stated: a cordon of a machine that is not reported as draining and is
\* in no window of the fetched schedule posts to maintenance/schedule the
\* fetched windows, unmodified and in order, followed by one new window for
\* exactly that machine that starts now and lasts the given duration, both in
\* nanoseconds.
C1_CordonAppendsWindow ==
    \A p \in Procs :
        CordonApplies(p) =>
            /\ Len(reqs[p]) = 3
            /\ reqs[p][3].method = "POST"
            /\ reqs[p][3].path = "maintenance/schedule"
            /\ reqs[p][3].json = "schedule"
            /\ LET old == WindowsOf(schedule[p])
                   ws == WindowsOf(PostedDoc(p))
               IN  /\ Len(ws) = Len(old) + 1
                   /\ \A i \in 1..Len(old) : ws[i] = old[i]
                   /\ ws[Len(ws)].machine_ids = <<machine_id[p]>>
                   /\ IsNanoseconds(ws[Len(ws)].unavailability.start.nanoseconds,
                                    now[p])
                   /\ IsNanoseconds(ws[Len(ws)].unavailability.duration.nanoseconds,
                                    duration[p])

\* ---------------------------------------------------------------- C2
CordonDuplicate(p) ==
    /\ func[p] = "cordon"
    /\ Done(p)
    /\ \/ Reported(p) /\ machine_id[p] \in status[p]
       \/ Fetched(p) /\ ~InNoWindow(machine_id[p], WindowsOf(schedule[p]))

\* C2: a cordon of a machine that is reported as draining, or that is in a
\* window of the fetched schedule, ends with a ScheduleError, posts nothing
\* and leaves the remote schedule as it was.
C2_CordonRejectsDuplicate ==
    \A p \in Procs :
        CordonDuplicate(p) =>
            /\ raised[p] = "ScheduleError"
            /\ exit[p] = 1
            /\ out[p] = <<"ERROR">>
            /\ ~Posted(p)
            /\ \A i \in 1..Len(reqs[p]) : reqs[p][i].method = "GET"
            /\ (Latest(p) /\ Fetched(p)) => remote = schedule[p]

C2_Witness ==
    \E p \in Procs :
        /\ CordonDuplicate(p)
        /\ ~(machine_id[p] \in status[p])
        /\ Len(WindowsOf(schedule[p])) >= 2
        /\ ~InSeq(machine_id[p], WindowsOf(schedule[p])[1].machine_ids)
        /\ Latest(p)

\* ---------------------------------------------------------------- C3
UncordonOk(p) == func[p] = "uncordon" /\ Succeeded(p)

\* C3: after a successful uncordon the machine is in no window of the posted
\* schedule, in however many windows of the fetched schedule it was.
C3_UncordonRemovesEverywhere ==
    \A p \in Procs :
        UncordonOk(p) =>
            /\ Posted(p)
            /\ InNoWindow(machine_id[p], WindowsOf(PostedDoc(p)))

C3_Witness ==
    \E p \in Procs :
        /\ UncordonOk(p)
        /\ Len(WindowsOf(schedule[p])) >= 2
        /\ \A i \in 1..2 : InSeq(machine_id[p], WindowsOf(schedule[p])[i].machine_ids)
        /\ Len(PostedDoc(p).windows) >= 1

\* ---------------------------------------------------------------- C4
\* C4 as stated: no schedule that cordon or uncordon posts has a window with
\* empty machine_ids.
C4_NoEmptyWindowPosted ==
    \A p \in Procs :
        (Done(p) /\ Posted(p)) => ~HasEmptyWindow(WindowsOf(PostedDoc(p)))

\* C4, amended: a schedule that uncordon posts has no window with empty
\* machine_ids, whatever was fetched; a schedule that cordon posts has one
\* exactly when the fetched schedule had one.
C4_EmptyWindowPruned ==
    \A p \in Procs :
        (Done(p) /\ Posted(p)) =>
            /\ func[p] = "uncordon" => ~HasEmptyWindow(WindowsOf(PostedDoc(p)))
            /\ func[p] = "cordon" =>
                   (HasEmptyWindow(WindowsOf(PostedDoc(p)))
                        <=> HasEmptyWindow(WindowsOf(schedule[p])))

C4_Witness ==
    \E p \in Procs :
        /\ UncordonOk(p)
        /\ Len(WindowsOf(schedule[p])) >= 2
        /\ WindowsOf(schedule[p])[1].machine_ids = <<>>
        /\ WindowsOf(schedule[p])[2].machine_ids = <<machine_id[p]>>
        /\ PostedDoc(p).windows = <<>>

\* ---------------------------------------------------------------- C5
\* an uncordon that has ended after it got the schedule
UncordonDone(p) == func[p] = "uncordon" /\ Done(p) /\ Fetched(p)

\* C5: an uncordon that got the schedule ends with a ScheduleError, having
\* posted nothing, exactly when the machine is in no window of the fetched
\* schedule (a schedule without windows included), whatever maintenance/status
\* reported; otherwise it posts.
C5_UncordonFailsIffAbsent ==
    \A p \in Procs :
        UncordonDone(p) =>
            /\ raised[p] = "ScheduleError"
                   <=> InNoWindow(machine_id[p], WindowsOf(schedule[p]))
            /\ raised[p] = "ScheduleError" =>
                   /\ out[p][Len(out[p])] = "ERROR"
                   /\ exit[p] = 1
                   /\ ~Posted(p)
                   /\ Latest(p) => remote = schedule[p]
            /\ raised[p] # "ScheduleError" => Posted(p)
            /\ raised[p] = "none" => (Latest(p) => remote = PostedDoc(p))

C5_Witness ==
    \E p, q \in Procs :
        /\ UncordonDone(p) /\ raised[p] = "ScheduleError"
        /\ WindowsOf(schedule[p]) # <<>>
        /\ UncordonDone(q) /\ raised[q] = "none" /\ ~(machine_id[q] \in status[q])

\* ---------------------------------------------------------------- C6
\* command p + 1 is the uncordon of the machine that command p cordoned
RoundTrip(p) ==
    /\ p + 1 \in Procs
    /\ func[p] = "cordon" /\ Succeeded(p)
    /\ func[p + 1] = "uncordon" /\ Succeeded(p + 1)
    /\ machine_id[p + 1] = machine_id[p]

\* C6 as stated: a cordon followed by the uncordon of the same machine leaves
\* the windows that were there before the cordon.
C6_RoundTrip ==
    \A p \in Procs :
        RoundTrip(p) => WindowsOf(PostedDoc(p + 1)) = WindowsOf(schedule[p])

\* C6, amended: it does when no window of the schedule before the cordon has
\* empty machine_ids.
C6_RoundTripNoEmptyWindow ==
    \A p \in Procs :
        (RoundTrip(p) /\ ~HasEmptyWindow(WindowsOf(schedule[p]))) =>
            /\ WindowsOf(PostedDoc(p + 1)) = WindowsOf(schedule[p])
            /\ Latest(p + 1) => WindowsOf(remote) = WindowsOf(schedule[p])

C6_Witness ==
    \E p \in Procs :
        /\ RoundTrip(p)
        /\ ~HasEmptyWindow(WindowsOf(schedule[p]))
        /\ Len(WindowsOf(schedule[p])) >= 2
        /\ Latest(p + 1)

\* ---------------------------------------------------------------- C7
DirectDone(p) == func[p] \in {"drain", "up"} /\ Done(p)

\* C7: drain issues one request, POST machine/down with body [machine], up
\* issues one request, POST machine/up with body [machine]; the step leaves
\* the remote schedule alone.
C7_DrainUpOneRequest ==
    /\ [](\A p \in Procs :
            DirectDone(p) =>
                /\ Len(reqs[p]) = 1
                /\ reqs[p][1].method = "POST"
                /\ reqs[p][1].path = (IF func[p] = "drain" THEN "machine/down"
                                                         ELSE "machine/up")
                /\ reqs[p][1].json = "machines"
                /\ reqs[p][1].machines = <<machine_id[p]>>)
    /\ [][\A p \in Procs :
            (pc[p] = "init" /\ func'[p] \in {"drain", "up"}) =>
                (remote' = remote /\ pc'[p] = "done")]_vars

C7_Witness ==
    \E p, q \in Procs :
        /\ DirectDone(p) /\ func[p] = "drain" /\ raised[p] = "none"
        /\ DirectDone(q) /\ func[q] = "up" /\ raised[q] = "none"
        /\ machine_id[q] = MachineIdOf("h1", "n1")
        /\ WindowsOf(remote) # <<>>

\* ---------------------------------------------------------------- C9
\* C9 as stated: the window that cordon appends has a duration of at least 0
\* nanoseconds, for every --duration that the command line takes.
C9_DurationNonNegative ==
    \A p \in Procs :
        (func[p] = "cordon" /\ Done(p) /\ Posted(p)) =>
            LET ws == PostedDoc(p).windows
            IN  ~ws[Len(ws)].unavailability.duration.nanoseconds.neg

\* ---------------------------------------------------------------- C8
\* C8: from a schedule in which every machine id is in at most one window,
\* the commands, interleaved or not, keep every machine id in at most one
\* window of the remote schedule.
C8_AtMostOneWindow == AtMostOneWindow(remote)

C8_Witness ==
    \E p, q \in Procs :
        /\ p # q
        /\ func[p] = "cordon" /\ Succeeded(p)
        /\ func[q] = "cordon" /\ Succeeded(q)
        /\ machine_id[p] = machine_id[q]
        /\ Len(WindowsOf(remote)) >= 2

\* ---------------------------------------------------------------- C10
\* p and q are cordons of distinct machines that got the same schedule, both
\* ended without error, and q posted last
LostUpdate(p, q) ==
    /\ p # q
    /\ func[p] = "cordon" /\ Succeeded(p)
    /\ func[q] = "cordon" /\ Succeeded(q)
    /\ machine_id[p] # machine_id[q]
    /\ schedule[p] = schedule[q]
    /\ remote = PostedDoc(q)

\* C10: when two cordons of distinct machines were given the same schedule
\* and both ended without error, the remote schedule after the later post
\* holds the later command's machine and not the earlier command's; two
\* cordons that both get the schedule before either posts end this way.
C10_LastWriteWins ==
    \A p, q \in Procs :
        LostUpdate(p, q) =>
            /\ InNoWindow(machine_id[p], WindowsOf(remote))
            /\ ~InNoWindow(machine_id[q], WindowsOf(remote))

C10_Witness == \E p, q \in Procs : LostUpdate(p, q)

====
